---- MODULE Spec2Model ----
(***************************************************************************)
(* Route planner of organic_route_designer.py (OrganicRouteDesigner) and   *)
(* the descriptor matcher of elden_nav/navigator.py (ScreenNavigator).     *)
(*                                                                         *)
(* A compound id is a number of 1..NumCompounds; a Reaction is the record  *)
(* [reactants, product].  The condition and reaction_type labels of a      *)
(* Reaction are never read by the search and are left out of the record.   *)
(* _best_cost is memoised by lru_cache on (target, stack); the rule graph  *)
(* is never changed after construction, so a cached value is the value    *)
(* the body computes and the operators below compute the body.             *)
(***************************************************************************)
EXTENDS Integers, Sequences, FiniteSets, TLC

\* ---------------------------------------------------------------- bounds
\* the generated rule graphs: compounds 1..NumCompounds, at most MaxRules
\* reactions of at most MaxInputs reactants each
NumCompounds == 3
MaxRules == 3
MaxInputs == 2
\* the longest path argument a direct call of _best_cost is given
MaxPath == 1
\* the interpreter runs: at most MaxRunRules reactions in a generated graph,
\* at most MaxCalls public calls on one designer
MaxRunRules == 2
MaxCalls == 1
\* the doubling chain: compound k of it is made from two of compound k - 1
ChainDepth == 30
\* the navigator: at most MaxItems indexed samples of at most MaxRows
\* descriptor rows of DescBits bits each (ORB rows have 256), a query of at
\* most MaxRows + 1 rows, top_k up to MaxItems + 1
MaxItems == 2
MaxRows == 2
DescBits == 2
\* the carbon numbers of the built-in database: range(1, MaxCarbon + 1) for
\* the program's range(1, 11)
MaxCarbon == 3

\* The sentinel 10**9 of _best_cost: "no route".
Unreachable == 1000000000

\* rxn is None
NoRxn == [reactants |-> <<>>, product |-> 0]

VARIABLES
    name_to_id,            \* display name -> compound id
    id_to_name,            \* compound id -> display name
    reactions,             \* every Reaction, in registration order
    product_to_reactions,  \* product -> its Reactions, in registration order
    starting_materials,    \* the compounds of cost 0
    call,                  \* the public call in progress and what it returned
    frames,                \* the interpreter's call stack, the running frame last
    cache,                 \* lru_cache of _best_cost: (target, stack) -> result
    ret,                   \* the value the last finished frame returned
    seen_set,              \* design_route's set() passed to _collect_steps
    steps,                 \* design_route's steps list passed to _collect_steps
    ncalls,                \* the public calls started on the interpreter
    index,                 \* ScreenNavigator.index.items
    located                \* the call of locate_from_descriptors and its result

vars == <<name_to_id, id_to_name, reactions, product_to_reactions,
          starting_materials, call, frames, cache, ret, seen_set, steps, ncalls,
          index, located>>

navigator == <<index, located>>

interpreter == <<frames, cache, ret, seen_set, steps, ncalls>>

graph == <<name_to_id, id_to_name, reactions, product_to_reactions,
           starting_materials>>

\* ------------------------------------------------------------ construction
\* A display name is its sequence of code points; Python compares strings
\* code point by code point.

\* PREFIX: the code points of the ten stems
PREFIX == <<30002, 20057, 19993, 19969, 25098, 24049, 24218, 36763, 22764, 30328>>

\* compound ids of the built-in database, as numbers
Alkane(n) == 100 + n
Haloalkane(n) == 200 + n
Alcohol(n) == 300 + n
Aldehyde(n) == 400 + n
Acid(n) == 500 + n
Alkene(n) == 600 + n
Ester(a, b) == 1000 + 20 * a + b
Benzene == 2001
Chlorobenzene == 2002
Bromobenzene == 2003
Nitrobenzene == 2004
Aniline == 2005
Phenol == 2006

Carbons == 1..MaxCarbon

\* _build_compounds: every (cid, name) pair _add_compound is called with
DatabaseCompounds ==
    UNION {{<<Alkane(n), <<PREFIX[n], 28919>>>>,
            <<Haloalkane(n), <<27695, PREFIX[n], 28919>>>>,
            <<Alcohol(n), <<PREFIX[n], 37255>>>>,
            <<Aldehyde(n), <<PREFIX[n], 37275>>>>,
            <<Acid(n), <<PREFIX[n], 37240>>>>} : n \in Carbons}
    \cup {<<Alkene(n), <<PREFIX[n], 28911>>>> : n \in Carbons \ {1}}
    \cup {<<Ester(a, b), <<PREFIX[a], 37240, PREFIX[b], 37231>>>> :
              a \in Carbons, b \in Carbons}
    \cup {<<Benzene, <<33519>>>>, <<Chlorobenzene, <<27695, 33519>>>>,
          <<Bromobenzene, <<28340, 33519>>>>,
          <<Nitrobenzene, <<30813, 22522, 33519>>>>,
          <<Aniline, <<33519, 33018>>>>, <<Phenol, <<33519, 37210>>>>}

\* the generated graphs name compound cid by one code point, the names in
\* the reverse of the ids' order
GeneratedCompounds == {<<cid, <<NumCompounds + 1 - cid>>>> : cid \in 1..NumCompounds}

\* _add_compound over a set of (cid, name) pairs with distinct ids and names
BuildIdToName(pairs) ==
    [cid \in {p[1] : p \in pairs} |-> (CHOOSE p \in pairs : p[1] = cid)[2]]

BuildNameToId(pairs) ==
    [name \in {p[2] : p \in pairs} |-> (CHOOSE p \in pairs : p[2] = name)[1]]

Rxn(reactants, product) == [reactants |-> reactants, product |-> product]

RECURSIVE CarbonReactions(_), EsterReactions(_, _)

\* lines 99-117: the reactions registered for carbon numbers 1..n, in order
CarbonReactions(n) ==
    IF n = 0 THEN <<>>
    ELSE CarbonReactions(n - 1)
         \o <<Rxn(<<Alkane(n)>>, Haloalkane(n)),
              Rxn(<<Haloalkane(n)>>, Alcohol(n)),
              Rxn(<<Alcohol(n)>>, Haloalkane(n))>>
         \o (IF n >= 2
             THEN <<Rxn(<<Haloalkane(n)>>, Alkene(n)),
                    Rxn(<<Alkene(n)>>, Alcohol(n)),
                    Rxn(<<Alcohol(n)>>, Alkene(n))>>
             ELSE <<>>)
         \o <<Rxn(<<Alcohol(n)>>, Aldehyde(n)),
              Rxn(<<Aldehyde(n)>>, Acid(n))>>

\* lines 119-126: the esterifications up to (a, b), b the inner loop
EsterReactions(a, b) ==
    IF a = 0 THEN <<>>
    ELSE IF b = 0 THEN EsterReactions(a - 1, MaxCarbon)
    ELSE Append(EsterReactions(a, b - 1), Rxn(<<Acid(a), Alcohol(b)>>, Ester(a, b)))

\* lines 128-132
AromaticReactions ==
    <<Rxn(<<Benzene>>, Chlorobenzene), Rxn(<<Benzene>>, Bromobenzene),
      Rxn(<<Benzene>>, Nitrobenzene), Rxn(<<Nitrobenzene>>, Aniline),
      Rxn(<<Chlorobenzene>>, Phenol)>>

\* _build_reactions
DatabaseReactions ==
    CarbonReactions(MaxCarbon) \o EsterReactions(MaxCarbon, MaxCarbon)
    \o AromaticReactions

\* lines 50-59
DatabaseStartingMaterials ==
    {Alkane(n) : n \in Carbons}
    \cup {Alkene(2), Alkene(3), Alkene(4), Benzene, Alcohol(1), Alcohol(2)}

\* _add_reaction: product_to_reactions.setdefault(product, []).append(rxn),
\* for every rxn of the list rs in order
IndexByProduct(rs) ==
    [p \in {rs[i].product : i \in DOMAIN rs} |->
        SelectSeq(rs, LAMBDA r : r.product = p)]

ReactantTuples == UNION {[1..n -> 1..NumCompounds] : n \in 0..MaxInputs}

Reaction == [reactants : ReactantTuples, product : 1..NumCompounds]

\* Registration sequences of at most MaxRules reactions.  The search reads
\* only product_to_reactions, the per-product lists, so one registration
\* order is drawn for each family of per-product lists: the one that
\* registers the products in ascending order.
RuleListsUpTo(m) ==
    UNION {{rs \in [1..n -> Reaction] :
              \A i \in 1..(n - 1) : rs[i].product <= rs[i + 1].product}
           : n \in 0..m}

RuleLists == RuleListsUpTo(MaxRules)

NoCall == [op |-> "none", name |-> <<>>, target |-> 0, path |-> <<>>,
           count |-> 0, cost |-> 0, rxn |-> NoRxn, none |-> FALSE, ok |-> TRUE,
           steps |-> <<>>, names |-> <<>>]

\* the value of ret before any frame has returned
NoRet == [cost |-> 0, rxn |-> NoRxn, ok |-> TRUE]

\* no call of locate_from_descriptors made
NoLocate == [op |-> "none", query |-> <<>>, top_k |-> 0, raised |-> FALSE,
             selected |-> <<>>, confidence |-> <<0, 1>>, x |-> <<0, 1>>,
             y |-> <<0, 1>>]

\* no call in progress, nothing cached; no navigator
Idle ==
    /\ index = <<>>
    /\ located = NoLocate
    /\ call = NoCall
    /\ frames = <<>>
    /\ cache = <<>>
    /\ ret = NoRet
    /\ seen_set = {}
    /\ steps = <<>>
    /\ ncalls = 0

\* __init__ over the compounds pairs, the reactions rs and the starting
\* materials start
Designer(pairs, rs, start) ==
    /\ id_to_name = BuildIdToName(pairs)
    /\ name_to_id = BuildNameToId(pairs)
    /\ reactions = rs
    /\ product_to_reactions = IndexByProduct(rs)
    /\ starting_materials = start

\* the designer over a generated rule graph and starting-material set
InitGenerated ==
    \E rs \in RuleLists, start \in SUBSET (1..NumCompounds) :
        Designer(GeneratedCompounds, rs, start) /\ Idle

\* OrganicRouteDesigner(): the built-in database
InitDatabase ==
    Designer(DatabaseCompounds, DatabaseReactions, DatabaseStartingMaterials) /\ Idle

\* a target whose two inputs are both made from one intermediate: compounds
\* 11..15, 15 from 13 and 14, each of them from 12, and 12 from 11
DiamondCompounds == {<<cid, <<cid>>>> : cid \in 11..15}

DiamondReactions ==
    <<Rxn(<<13, 14>>, 15), Rxn(<<12>>, 13), Rxn(<<12>>, 14), Rxn(<<11>>, 12)>>

InitDiamond ==
    \E start \in SUBSET (11..15) :
        Designer(DiamondCompounds, DiamondReactions, start) /\ Idle

Init == InitDatabase \/ InitDiamond \/ InitGenerated

\* the compounds of the registry
Compounds == DOMAIN id_to_name

\* ------------------------------------------------------------- _best_cost

RECURSIVE BestCost(_, _), BestOverRules(_, _, _, _, _), InputsTotal(_, _, _, _)

\* a tie replaces the running best too
ImprovesOrTies(feasible, total, best) == feasible /\ total <= best[1]

\* line 160: a later rule replaces the running best on a strictly smaller total
Improves(feasible, total, best) == feasible /\ total < best[1]

\* no cycle check
EarlyReturnNoGuard(target, stack) ==
    IF target \in starting_materials THEN <<TRUE, <<0, NoRxn>>>>
    ELSE <<FALSE, <<Unreachable, NoRxn>>>>

\* the cycle check made before the starting-material check
EarlyReturnCycleFirst(target, stack) ==
    IF \E i \in 1..Len(stack) : stack[i] = target
    THEN <<TRUE, <<Unreachable, NoRxn>>>>
    ELSE IF target \in starting_materials THEN <<TRUE, <<0, NoRxn>>>>
         ELSE <<FALSE, <<Unreachable, NoRxn>>>>

\* lines 145-148: the two early returns of _best_cost, in the code's order.
\* <<TRUE, result>> when one of them is taken.
EarlyReturn(target, stack) ==
    IF target \in starting_materials THEN <<TRUE, <<0, NoRxn>>>>
    ELSE IF \E i \in 1..Len(stack) : stack[i] = target
         THEN <<TRUE, <<Unreachable, NoRxn>>>>
         ELSE <<FALSE, <<Unreachable, NoRxn>>>>

\* total = c for total += c
AccumulateLast(total, c) == c

\* line 159: total += c
Accumulate(total, c) == total + c

\* lines 152-159: the loop over rxn.reactants from position i on, with the
\* running total; <<feasible, total>>.  The loop breaks at the first
\* unreachable reactant.
InputsTotal(reactants, i, total, stack) ==
    IF i > Len(reactants) THEN <<TRUE, total>>
    ELSE LET c == BestCost(reactants[i], stack)[1]
         IN IF c >= Unreachable THEN <<FALSE, total>>
            ELSE InputsTotal(reactants, i + 1, Accumulate(total, c), stack)

\* lines 151-161: the loop over product_to_reactions.get(target, []) from
\* position i on, with the running best
BestOverRules(rules, i, best, target, stack) ==
    IF i > Len(rules) THEN best
    ELSE LET ft == InputsTotal(rules[i].reactants, 1, 1, Append(stack, target))
         IN BestOverRules(rules, i + 1,
                IF Improves(ft[1], ft[2], best) THEN <<ft[2], rules[i]>> ELSE best,
                target, stack)

\* _best_cost(target, stack) -> (cost, rxn)
BestCost(target, stack) ==
    LET early == EarlyReturn(target, stack)
    IN IF early[1] THEN early[2]
       ELSE BestOverRules(
                IF target \in DOMAIN product_to_reactions
                THEN product_to_reactions[target] ELSE <<>>,
                1, <<Unreachable, NoRxn>>, target, stack)

\* ---------------------------------------------------------- _collect_steps

RECURSIVE CollectSteps(_, _, _, _), CollectInputs(_, _, _, _, _)

\* no membership test: every completion is appended
NotSeenAlways(rxn, seen) == TRUE

\* line 173: rxn not in seen
NotSeen(rxn, seen) == rxn \notin seen

\* ordered.insert(0, rxn)
EmitFirst(ordered, rxn) == <<rxn>> \o ordered

\* line 175: ordered.append(rxn)
Emit(ordered, rxn) == Append(ordered, rxn)

\* lines 170-172: the loop over rxn.reactants from position i on; it returns
\* at the first reactant whose collection fails
CollectInputs(reactants, i, seen, ordered, stack) ==
    IF i > Len(reactants) THEN [ok |-> TRUE, seen |-> seen, ordered |-> ordered]
    ELSE LET r == CollectSteps(reactants[i], seen, ordered, stack)
         IN IF ~r.ok THEN r
            ELSE CollectInputs(reactants, i + 1, r.seen, r.ordered, stack)

\* _collect_steps(target, seen, ordered, stack) -> bool, with seen and
\* ordered as it leaves them
CollectSteps(target, seen, ordered, stack) ==
    IF target \in starting_materials
    THEN [ok |-> TRUE, seen |-> seen, ordered |-> ordered]
    ELSE LET rxn == BestCost(target, stack)[2]
         IN IF rxn = NoRxn
            THEN [ok |-> FALSE, seen |-> seen, ordered |-> ordered]
            ELSE LET r == CollectInputs(rxn.reactants, 1, seen, ordered,
                                        Append(stack, target))
                 IN IF ~r.ok THEN r
                    ELSE IF NotSeen(rxn, r.seen)
                         THEN [ok |-> TRUE, seen |-> r.seen \cup {rxn},
                               ordered |-> Emit(r.ordered, rxn)]
                         ELSE r

\* ------------------------------------------------------------ design_route

\* compound_id(name): name_to_id.get(name); <<>> is None, <<cid>> an id
CompoundId(name) ==
    IF name \in DOMAIN name_to_id THEN <<name_to_id[name]>> ELSE <<>>

\* cost > 10**9
NoRouteStrict(cost) == cost > Unreachable

\* line 184: cost >= 10**9
NoRoute(cost) == cost >= Unreachable

\* design_route(target_name): none is "returned None"; ok is the value of
\* _collect_steps when it was called (TRUE otherwise); steps the list returned
DesignRoute(name) ==
    LET cid == CompoundId(name)
    IN IF cid = <<>>
       THEN [none |-> TRUE, ok |-> TRUE, cost |-> 0, steps |-> <<>>]
       ELSE LET cost == BestCost(cid[1], <<>>)[1]
            IN IF NoRoute(cost)
               THEN [none |-> FALSE, ok |-> TRUE, cost |-> cost, steps |-> <<>>]
               ELSE LET r == CollectSteps(cid[1], {}, <<>>, <<>>)
                    IN [none |-> FALSE, ok |-> r.ok, cost |-> cost,
                        steps |-> IF r.ok THEN r.ordered ELSE <<>>]

\* ------------------------------------------------------------ demo_targets

RECURSIVE Candidates(_), SortCandidates(_), Ascending(_)

\* str < str: the first differing code point decides, a proper prefix is less
NameLess(a, b) ==
    \/ \E k \in 1..Len(a) :
          /\ k <= Len(b)
          /\ a[k] < b[k]
          /\ \A j \in 1..(k - 1) : a[j] = b[j]
    \/ Len(a) < Len(b) /\ \A j \in 1..Len(a) : a[j] = b[j]

\* line 213: the sort key (cost, name), compared as Python compares tuples
KeyLess(a, b) == a[1] < b[1] \/ (a[1] = b[1] /\ NameLess(a[2], b[2]))

\* line 211: cost < 10**9
IsCandidate(cost) == cost < Unreachable

\* no compound is skipped
SkippedNever(cid) == FALSE

\* line 208: a starting material is skipped
Skipped(cid) == cid \in starting_materials

\* the ids of a set in ascending order.  id_to_name.items() yields them in
\* insertion order; the names are distinct, so the sort by (cost, name) that
\* follows gives one result for every order of the items.
Ascending(ids) ==
    IF ids = {} THEN <<>>
    ELSE LET m == CHOOSE x \in ids : \A y \in ids : y <= x
         IN Append(Ascending(ids \ {m}), m)

\* lines 207-212: the loop over the items, the first n of them
Candidates(items) ==
    IF items = <<>> THEN <<>>
    ELSE LET before == Candidates(SubSeq(items, 1, Len(items) - 1))
             cid == items[Len(items)]
         IN IF Skipped(cid) THEN before
            ELSE LET cost == BestCost(cid, <<>>)[1]
                 IN IF IsCandidate(cost)
                    THEN Append(before, <<cost, id_to_name[cid]>>)
                    ELSE before

\* list.sort(key=...): the stable ascending sort, here by insertion of the
\* last element after every element whose key is not greater
SortCandidates(cs) ==
    IF cs = <<>> THEN <<>>
    ELSE LET front == SortCandidates(SubSeq(cs, 1, Len(cs) - 1))
             x == cs[Len(cs)]
             k == Cardinality({i \in 1..Len(front) : ~KeyLess(x, front[i])})
         IN SubSeq(front, 1, k) \o <<x>> \o SubSeq(front, k + 1, Len(front))

\* candidates[:count], Python's slice: a negative count drops from the end
SliceTo(seq, count) ==
    IF count >= 0
    THEN SubSeq(seq, 1, IF count < Len(seq) THEN count ELSE Len(seq))
    ELSE SubSeq(seq, 1, IF Len(seq) + count > 0 THEN Len(seq) + count ELSE 0)

\* demo_targets(count) -> the names
DemoTargetsOf(count) ==
    LET sorted == SliceTo(SortCandidates(Candidates(Ascending(Compounds))), count)
    IN [i \in 1..Len(sorted) |-> sorted[i][2]]

\* ----------------------------------------------------------------- actions

\* a name no compound has
UnknownName == <<0>>

\* the names a caller may pass: every display name and one unknown name
Names == DOMAIN name_to_id \cup {UnknownName}

Paths == UNION {[1..n -> Compounds] : n \in 0..MaxPath}

Counts == (0 - 1)..(Cardinality(Compounds) + 1)

\* _best_cost(target, path), called directly
MinimumCost(target, path) ==
    /\ call.op = "none"
    /\ LET r == BestCost(target, path)
       IN call' = [NoCall EXCEPT !.op = "minimum_cost", !.target = target,
                                 !.path = path, !.cost = r[1], !.rxn = r[2]]
    /\ UNCHANGED <<graph, interpreter, navigator>>

\* design_route(name)
DesignRouteCall(name) ==
    /\ call.op = "none"
    /\ LET r == DesignRoute(name)
       IN call' = [NoCall EXCEPT !.op = "design_route", !.name = name,
                                 !.none = r.none, !.ok = r.ok, !.cost = r.cost,
                                 !.steps = r.steps]
    /\ UNCHANGED <<graph, interpreter, navigator>>

\* demo_targets(count)
DemoTargets(count) ==
    /\ call.op = "none"
    /\ call' = [NoCall EXCEPT !.op = "demo_targets", !.count = count,
                              !.names = DemoTargetsOf(count)]
    /\ UNCHANGED <<graph, interpreter, navigator>>

\* the caller has taken the result; the designer is unchanged and takes the
\* next call
Return ==
    /\ call.op \notin {"none", "running"}
    /\ call' = NoCall
    /\ UNCHANGED <<graph, interpreter, navigator>>

Next ==
    \/ \E target \in Compounds, path \in Paths : MinimumCost(target, path)
    \/ \E name \in Names : DesignRouteCall(name)
    \/ \E count \in Counts : DemoTargets(count)
    \/ Return

Spec == Init /\ [][Next]_vars

\* ------------------------------------------------------------ interpreter
\* The same code run call by call: a frame for every active call of
\* _best_cost, _collect_steps, design_route and of the direct caller of
\* _best_cost, and the lru_cache of _best_cost.

NewFrame(fn, pc, target, stack) ==
    [fn |-> fn, pc |-> pc, target |-> target, stack |-> stack, ri |-> 1,
     ii |-> 1, total |-> 1, feasible |-> TRUE, best |-> <<Unreachable, NoRxn>>,
     rxn |-> NoRxn, cost |-> 0, ok |-> TRUE]

Top == frames[Len(frames)]

Running(fn, pc) == frames # <<>> /\ Top.fn = fn /\ Top.pc = pc

Replace(f) == [frames EXCEPT ![Len(frames)] = f]

Pop == SubSeq(frames, 1, Len(frames) - 1)

\* line 151: self.product_to_reactions.get(target, [])
RulesOf(target) ==
    IF target \in DOMAIN product_to_reactions
    THEN product_to_reactions[target] ELSE <<>>

\* the arguments of the call of _best_cost that frame f is about to make:
\* line 155 in _best_cost, line 167 in _collect_steps, line 183 in design_route
CalleeKey(f) ==
    IF f.fn = "_best_cost"
    THEN <<RulesOf(f.target)[f.ri].reactants[f.ii], Append(f.stack, f.target)>>
    ELSE <<f.target, f.stack>>

\* a direct call of _best_cost(target, ())
StartMinimumCost(target) ==
    /\ call.op = "none" /\ frames = <<>> /\ ncalls < MaxCalls
    /\ ncalls' = ncalls + 1
    /\ call' = [NoCall EXCEPT !.op = "running", !.target = target]
    /\ frames' = <<NewFrame("minimum_cost", "call", target, <<>>)>>
    /\ UNCHANGED <<navigator, graph, cache, ret, seen_set, steps>>

\* design_route(name), lines 179-183
StartDesignRoute(name) ==
    /\ call.op = "none" /\ frames = <<>> /\ ncalls < MaxCalls
    /\ ncalls' = ncalls + 1
    /\ LET cid == CompoundId(name)
       IN IF cid = <<>>
          THEN /\ call' = [NoCall EXCEPT !.op = "design_route", !.name = name,
                                         !.none = TRUE]
               /\ frames' = frames
          ELSE /\ call' = [NoCall EXCEPT !.op = "running", !.name = name]
               /\ frames' = <<NewFrame("design_route", "call", cid[1], <<>>)>>
    /\ UNCHANGED <<navigator, graph, cache, ret, seen_set, steps>>

\* the lru_cache wrapper: a cached result is returned without a frame
CallBest ==
    /\ frames # <<>> /\ Top.pc = "call"
    /\ LET key == CalleeKey(Top)
           waiting == Replace([Top EXCEPT !.pc = "resume"])
       IN \/ /\ key \in DOMAIN cache
             /\ ret' = [NoRet EXCEPT !.cost = cache[key][1], !.rxn = cache[key][2]]
             /\ frames' = waiting
          \/ /\ key \notin DOMAIN cache
             /\ ret' = ret
             /\ frames' = Append(waiting, NewFrame("_best_cost", "enter", key[1], key[2]))
    /\ UNCHANGED <<navigator, graph, call, cache, seen_set, steps, ncalls>>

\* lines 145-150
BestEnter ==
    /\ Running("_best_cost", "enter")
    /\ LET early == EarlyReturn(Top.target, Top.stack)
       IN frames' = Replace(IF early[1]
                            THEN [Top EXCEPT !.pc = "return", !.best = early[2]]
                            ELSE [Top EXCEPT !.pc = "loop", !.ri = 1,
                                             !.best = <<Unreachable, NoRxn>>])
    /\ UNCHANGED <<navigator, graph, call, cache, ret, seen_set, steps, ncalls>>

\* lines 151-153, and line 162 after the last rule
BestLoop ==
    /\ Running("_best_cost", "loop")
    /\ frames' = Replace(IF Top.ri > Len(RulesOf(Top.target))
                         THEN [Top EXCEPT !.pc = "return"]
                         ELSE [Top EXCEPT !.pc = "inputs", !.total = 1,
                                          !.feasible = TRUE, !.ii = 1])
    /\ UNCHANGED <<navigator, graph, call, cache, ret, seen_set, steps, ncalls>>

\* line 154: the next reactant, or the end of the loop
BestInputs ==
    /\ Running("_best_cost", "inputs")
    /\ frames' = Replace(IF Top.ii > Len(RulesOf(Top.target)[Top.ri].reactants)
                         THEN [Top EXCEPT !.pc = "test"]
                         ELSE [Top EXCEPT !.pc = "call"])
    /\ UNCHANGED <<navigator, graph, call, cache, ret, seen_set, steps, ncalls>>

\* lines 155-159, with c returned
BestResume ==
    /\ Running("_best_cost", "resume")
    /\ frames' = Replace(IF ret.cost >= Unreachable
                         THEN [Top EXCEPT !.pc = "test", !.feasible = FALSE]
                         ELSE [Top EXCEPT !.pc = "inputs", !.ii = @ + 1,
                                          !.total = Accumulate(@, ret.cost)])
    /\ UNCHANGED <<navigator, graph, call, cache, ret, seen_set, steps, ncalls>>

\* lines 160-161
BestTest ==
    /\ Running("_best_cost", "test")
    /\ frames' = Replace(
           [Top EXCEPT !.pc = "loop", !.ri = @ + 1,
                       !.best = IF Improves(Top.feasible, Top.total, Top.best)
                                THEN <<Top.total, RulesOf(Top.target)[Top.ri]>>
                                ELSE @])
    /\ UNCHANGED <<navigator, graph, call, cache, ret, seen_set, steps, ncalls>>

\* a return of _best_cost: the wrapper caches the result
BestReturn ==
    /\ Running("_best_cost", "return")
    /\ cache' = (<<Top.target, Top.stack>> :> Top.best) @@ cache
    /\ ret' = [NoRet EXCEPT !.cost = Top.best[1], !.rxn = Top.best[2]]
    /\ frames' = Pop
    /\ UNCHANGED <<navigator, graph, call, seen_set, steps, ncalls>>

\* the direct caller has its result
MinimumCostResume ==
    /\ Running("minimum_cost", "resume")
    /\ call' = [NoCall EXCEPT !.op = "minimum_cost", !.target = Top.target,
                              !.cost = ret.cost, !.rxn = ret.rxn]
    /\ frames' = <<>>
    /\ UNCHANGED <<navigator, graph, cache, ret, seen_set, steps, ncalls>>

\* lines 183-188
DesignResume ==
    /\ Running("design_route", "resume")
    /\ IF NoRoute(ret.cost)
       THEN /\ call' = [NoCall EXCEPT !.op = "design_route", !.name = call.name,
                                      !.cost = ret.cost]
            /\ frames' = <<>>
            /\ UNCHANGED <<seen_set, steps>>
       ELSE /\ seen_set' = {}
            /\ steps' = <<>>
            /\ frames' = Append(Replace([Top EXCEPT !.pc = "collected",
                                                    !.cost = ret.cost]),
                                NewFrame("_collect_steps", "enter", Top.target, <<>>))
            /\ call' = call
    /\ UNCHANGED <<navigator, graph, cache, ret, ncalls>>

\* line 189
DesignReturn ==
    /\ Running("design_route", "collected")
    /\ call' = [NoCall EXCEPT !.op = "design_route", !.name = call.name,
                              !.cost = Top.cost, !.ok = ret.ok,
                              !.steps = IF ret.ok THEN steps ELSE <<>>]
    /\ frames' = <<>>
    /\ UNCHANGED <<navigator, graph, cache, ret, seen_set, steps, ncalls>>

\* lines 165-167
CollectEnter ==
    /\ Running("_collect_steps", "enter")
    /\ frames' = Replace(IF Top.target \in starting_materials
                         THEN [Top EXCEPT !.pc = "return", !.ok = TRUE]
                         ELSE [Top EXCEPT !.pc = "call"])
    /\ UNCHANGED <<navigator, graph, call, cache, ret, seen_set, steps, ncalls>>

\* lines 167-169, with (_, rxn) returned
CollectResume ==
    /\ Running("_collect_steps", "resume")
    /\ frames' = Replace(IF ret.rxn = NoRxn
                         THEN [Top EXCEPT !.pc = "return", !.ok = FALSE]
                         ELSE [Top EXCEPT !.pc = "inputs", !.rxn = ret.rxn,
                                          !.ii = 1])
    /\ UNCHANGED <<navigator, graph, call, cache, ret, seen_set, steps, ncalls>>

\* lines 170-171: the recursive call for the next reactant
CollectCall ==
    /\ Running("_collect_steps", "inputs")
    /\ Top.ii <= Len(Top.rxn.reactants)
    /\ frames' = Append(Replace([Top EXCEPT !.pc = "collected"]),
                        NewFrame("_collect_steps", "enter",
                                 Top.rxn.reactants[Top.ii],
                                 Append(Top.stack, Top.target)))
    /\ UNCHANGED <<navigator, graph, call, cache, ret, seen_set, steps, ncalls>>

\* lines 173-176, after the last reactant
CollectEmit ==
    /\ Running("_collect_steps", "inputs")
    /\ Top.ii > Len(Top.rxn.reactants)
    /\ IF NotSeen(Top.rxn, seen_set)
       THEN seen_set' = seen_set \cup {Top.rxn} /\ steps' = Emit(steps, Top.rxn)
       ELSE UNCHANGED <<seen_set, steps>>
    /\ frames' = Replace([Top EXCEPT !.pc = "return", !.ok = TRUE])
    /\ UNCHANGED <<navigator, graph, call, cache, ret, ncalls>>

\* lines 171-172, with the recursive call returned
CollectResumeChild ==
    /\ Running("_collect_steps", "collected")
    /\ frames' = Replace(IF ~ret.ok
                         THEN [Top EXCEPT !.pc = "return", !.ok = FALSE]
                         ELSE [Top EXCEPT !.pc = "inputs", !.ii = @ + 1])
    /\ UNCHANGED <<navigator, graph, call, cache, ret, seen_set, steps, ncalls>>

\* a return of _collect_steps
CollectReturn ==
    /\ Running("_collect_steps", "return")
    /\ ret' = [NoRet EXCEPT !.ok = Top.ok]
    /\ frames' = Pop
    /\ UNCHANGED <<navigator, graph, call, cache, seen_set, steps, ncalls>>

\* one step of the call in progress
RunStep ==
    \/ CallBest
    \/ BestEnter
    \/ BestLoop
    \/ BestInputs
    \/ BestResume
    \/ BestTest
    \/ BestReturn
    \/ MinimumCostResume
    \/ DesignResume
    \/ DesignReturn
    \/ CollectEnter
    \/ CollectResume
    \/ CollectCall
    \/ CollectEmit
    \/ CollectResumeChild
    \/ CollectReturn

NextRun ==
    \/ \E target \in Compounds : StartMinimumCost(target)
    \/ \E name \in Names : StartDesignRoute(name)
    \/ RunStep
    \/ Return

\* one step of a direct call of _best_cost
CostStep ==
    \/ CallBest
    \/ BestEnter
    \/ BestLoop
    \/ BestInputs
    \/ BestResume
    \/ BestTest
    \/ BestReturn
    \/ MinimumCostResume

NextChain ==
    \/ \E target \in Compounds : StartMinimumCost(target)
    \/ CostStep
    \/ Return

\* the doubling chain of depth ChainDepth: compound 3000 is the starting
\* material, compound 3000 + k is made from two of compound 3000 + k - 1
ChainCompounds == {<<3000 + k, <<3000 + k>>>> : k \in 0..ChainDepth}

ChainReactions ==
    [k \in 1..ChainDepth |-> Rxn(<<3000 + k - 1, 3000 + k - 1>>, 3000 + k)]

InitChain == Designer(ChainCompounds, ChainReactions, {3000}) /\ Idle

InitRunGenerated ==
    \E rs \in RuleListsUpTo(MaxRunRules), start \in SUBSET (1..NumCompounds) :
        Designer(GeneratedCompounds, rs, start) /\ Idle

InitRun == InitDatabase \/ InitDiamond \/ InitRunGenerated

\* the interpreter runs the call in progress until it returns
SpecRun == InitRun /\ [][NextRun]_vars /\ WF_vars(RunStep)

\* direct calls of _best_cost on the doubling chain (design_route on it
\* takes 2^k calls of _collect_steps for compound k, which has no cache)
SpecChain == InitChain /\ [][NextChain]_vars /\ WF_vars(CostStep)

\* -------------------------------------------------------------- navigator
\* elden_nav/navigator.py.  A descriptor row is a number of DescBits bits; a
\* score is kept as the whole number score * ScoreScale, which is exact
\* because every norm divides ScoreScale; a quotient is the pair
\* <<numerator, denominator>>.

RECURSIVE Factorial(_), Hamming(_, _, _), GoodMatches(_, _), SortMatches(_), SumSeq(_)

Factorial(n) == IF n <= 1 THEN 1 ELSE n * Factorial(n - 1)

ScoreScale == Factorial(MaxRows + 1)

\* cv2.NORM_HAMMING: the number of the low k bits in which a and b differ
Hamming(a, b, k) ==
    IF k = 0 THEN 0
    ELSE (IF a % 2 = b % 2 THEN 0 ELSE 1) + Hamming(a \div 2, b \div 2, k - 1)

\* knnMatch(query, target, k=2) for one query row: the distances of the two
\* nearest target rows, nearest first; one distance or none for a target of
\* one row or none
KnnPair(row, target) ==
    IF target = <<>> THEN <<>>
    ELSE LET dist == [j \in DOMAIN target |-> Hamming(row, target[j], DescBits)]
             m == CHOOSE j \in DOMAIN target : \A i \in DOMAIN target : dist[j] <= dist[i]
             others == DOMAIN target \ {m}
         IN IF others = {} THEN <<dist[m]>>
            ELSE LET n == CHOOSE j \in others : \A i \in others : dist[j] <= dist[i]
                 IN <<dist[m], dist[n]>>

\* line 37: m.distance < 0.75 * n.distance
RatioTest(m, n) == 4 * m < 3 * n

\* lines 32-38: good, over the pairs of the query rows
GoodMatches(query, target) ==
    IF query = <<>> THEN 0
    ELSE LET pair == KnnPair(Head(query), target)
         IN (IF Len(pair) < 2 THEN 0
             ELSE IF RatioTest(pair[1], pair[2]) THEN 1 ELSE 0)
            + GoodMatches(Tail(query), target)

\* _score_descriptors(query, target), times ScoreScale
ScoreDescriptors(query, target) ==
    IF Len(query) = 0 \/ Len(target) = 0 THEN 0
    ELSE LET good == GoodMatches(query, target)
             norm == IF Len(query) < Len(target) THEN Len(query) ELSE Len(target)
         IN IF norm = 0 THEN 0 ELSE (good * ScoreScale) \div norm

\* ascending order of the score
BeforeAscending(a, b) == a.score < b.score

\* line 55: key=score, reverse=True
Before(a, b) == a.score > b.score

\* scores.sort(key=lambda m: m.score, reverse=True): the stable sort, by
\* insertion of the last element after every element that is not behind it
SortMatches(ms) ==
    IF ms = <<>> THEN <<>>
    ELSE LET front == SortMatches(SubSeq(ms, 1, Len(ms) - 1))
             x == ms[Len(ms)]
             k == Cardinality({i \in 1..Len(front) : ~Before(x, front[i])})
         IN SubSeq(front, 1, k) \o <<x>> \o SubSeq(front, k + 1, Len(front))

SumSeq(ns) == IF ns = <<>> THEN 0 ELSE Head(ns) + SumSeq(Tail(ns))

\* 0.65 * top_score + 0.35 * mean_score, uncapped
ConfidenceRaw(selected) ==
    <<65 * selected[1].score * Len(selected)
        + 35 * SumSeq([i \in DOMAIN selected |-> selected[i].score]),
      100 * ScoreScale * Len(selected)>>

\* line 67: min(1.0, ...)
Confidence(selected) ==
    LET raw == ConfidenceRaw(selected)
    IN IF raw[1] > raw[2] THEN <<raw[2], raw[2]>> ELSE raw

\* line 58: max(m.score, 1e-6), times 10**6 * ScoreScale
Weight(m) == IF m.score * 1000000 > ScoreScale THEN m.score * 1000000 ELSE ScoreScale

\* np.average(values, weights=weights), as a quotient
Average(values, weights) ==
    <<SumSeq([i \in DOMAIN values |-> values[i] * weights[i]]), SumSeq(weights)>>

\* line 56: scores[: max(1, top_k)]
Selected(scores, top_k) == SliceTo(scores, IF top_k > 1 THEN top_k ELSE 1)

\* locate_from_descriptors(query_descriptors, top_k); np.average raises
\* ZeroDivisionError for an empty selection
LocateResult(query, top_k) ==
    LET scores == [i \in DOMAIN index |->
                      [sample |-> index[i].sample,
                       score |-> ScoreDescriptors(query, index[i].descriptors)]]
        selected == Selected(SortMatches(scores), top_k)
        weights == [i \in DOMAIN selected |-> Weight(selected[i])]
    IN IF selected = <<>>
       THEN [NoLocate EXCEPT !.op = "locate", !.query = query, !.top_k = top_k,
                             !.raised = TRUE]
       ELSE [NoLocate EXCEPT
                !.op = "locate", !.query = query, !.top_k = top_k,
                !.selected = selected,
                !.x = Average([i \in DOMAIN selected |-> selected[i].sample.x], weights),
                !.y = Average([i \in DOMAIN selected |-> selected[i].sample.y], weights),
                !.confidence = Confidence(selected)]

Rows == 0..(2 ^ DescBits - 1)

Descriptors(maxrows) == UNION {[1..n -> Rows] : n \in 0..maxrows}

\* FrameSample(image_path, x, y, label) of the i-th indexed sample
SampleOf(i) == [x |-> i, y |-> 2 * i, label |-> i]

\* FeatureIndex(items=[IndexedSample(sample, descriptors), ...])
Indexes ==
    UNION {{[i \in 1..n |-> [sample |-> SampleOf(i), descriptors |-> ds[i]]] :
               ds \in [1..n -> Descriptors(MaxRows)]}
           : n \in 0..MaxItems}

TopKs == (0 - 1)..(MaxItems + 1)

LocateFromDescriptors(query, top_k) ==
    /\ located.op = "none"
    /\ located' = LocateResult(query, top_k)
    /\ UNCHANGED <<graph, interpreter, call, index>>

\* the caller has taken the estimate
ReturnNav ==
    /\ located.op # "none"
    /\ located' = NoLocate
    /\ UNCHANGED <<graph, interpreter, call, index>>

NextNav ==
    \/ \E query \in Descriptors(MaxRows + 1), top_k \in TopKs :
          LocateFromDescriptors(query, top_k)
    \/ ReturnNav

\* ScreenNavigator(index)
InitNav ==
    /\ Designer({}, <<>>, {})
    /\ call = NoCall /\ frames = <<>> /\ cache = <<>> /\ ret = NoRet
    /\ seen_set = {} /\ steps = <<>> /\ ncalls = 0
    /\ index \in Indexes
    /\ located = NoLocate

SpecNav == InitNav /\ [][NextNav]_vars

\* ------------------------------------------------- the reference minimum
\* The AND/OR minimum the planner is specified to compute, by iteration to
\* the least fixpoint: NoDerivation for a compound that no finite derivation
\* from the starting materials produces.

NoDerivation == 0 - 1

RECURSIVE SumOf(_, _), RefFix(_)

\* every compound a reaction, the registry or the starting materials name
Universe ==
    Compounds \cup starting_materials
    \cup {reactions[i].product : i \in DOMAIN reactions}
    \cup UNION {{reactions[i].reactants[k] : k \in DOMAIN reactions[i].reactants}
                : i \in DOMAIN reactions}

\* the sum of f over a tuple of compounds, NoDerivation if f is for one of them
SumOf(reactants, f) ==
    IF reactants = <<>> THEN 0
    ELSE LET rest == SumOf(Tail(reactants), f)
         IN IF f[Head(reactants)] = NoDerivation \/ rest = NoDerivation
            THEN NoDerivation
            ELSE f[Head(reactants)] + rest

\* 1 + sum(input costs) of reaction r under the costs f
RefTotal(r, f) ==
    LET sum == SumOf(r.reactants, f)
    IN IF sum = NoDerivation THEN NoDerivation ELSE 1 + sum

RefStep(f) ==
    [c \in Universe |->
        IF c \in starting_materials THEN 0
        ELSE LET totals == {RefTotal(reactions[i], f) :
                              i \in {j \in DOMAIN reactions : reactions[j].product = c}}
                           \ {NoDerivation}
             IN IF totals = {} THEN NoDerivation
                ELSE CHOOSE t \in totals : \A u \in totals : t <= u]

RefFix(f) == LET g == RefStep(f) IN IF g = f THEN f ELSE RefFix(g)

RefCost ==
    RefFix([c \in Universe |-> IF c \in starting_materials THEN 0 ELSE NoDerivation])

\* ------------------------------------------------------------------ claims

Routed == call.op = "design_route" /\ ~call.none

\* the inputs of step i that are not starting materials
StepInputs(route, i) ==
    {route[i].reactants[k] : k \in DOMAIN route[i].reactants} \ starting_materials

\* C1: in a non-empty sequence returned by design_route, each input of the
\* step at position i is a starting material or the product of a step at
\* some position j < i.
C1_DependencyOrder ==
    Routed =>
        \A i \in DOMAIN call.steps :
            \A x \in StepInputs(call.steps, i) :
                \E j \in 1..(i - 1) : call.steps[j].product = x

\* a route of three steps or more in which a step takes two different products
\* of earlier steps
C1_Witness ==
    /\ Routed
    /\ Len(call.steps) >= 3
    /\ \E i \in DOMAIN call.steps : Cardinality(StepInputs(call.steps, i)) >= 2

\* C3 as stated: the number of steps of the sequence design_route returns for
\* a reachable target equals minimum_cost(target, empty path).
C3_StepsEqualCost ==
    (Routed /\ call.cost < Unreachable) => Len(call.steps) = call.cost

\* minimum_cost(cid, empty path)
CostOf(cid) == BestCost(cid, <<>>)[1]

\* C2: minimum_cost(target, empty path) is the reference AND/OR minimum, and
\* is unreachable (>= 10**9) exactly when no finite derivation exists.
C2_MinimumIsReference ==
    (call.op = "minimum_cost" /\ call.path = <<>>) =>
        IF RefCost[call.target] = NoDerivation
        THEN call.cost >= Unreachable
        ELSE call.cost = RefCost[call.target]

\* C5: for a starting material minimum_cost is 0 with no rule, whatever the
\* path, and design_route returns the empty sequence.
C5_StartingMaterial ==
    /\ (call.op = "minimum_cost" /\ call.target \in starting_materials) =>
           (call.cost = 0 /\ call.rxn = NoRxn)
    /\ (Routed /\ name_to_id[call.name] \in starting_materials) =>
           (call.steps = <<>> /\ call.cost = 0)

\* a starting material that reactions produce, asked with itself on the path
C5_Witness ==
    /\ call.op = "minimum_cost"
    /\ call.target \in starting_materials
    /\ \E i \in DOMAIN call.path : call.path[i] = call.target
    /\ call.target \in DOMAIN product_to_reactions
    /\ call.cost = 0

\* 1 + the sum of minimum_cost(input, empty path) over the inputs of r;
\* Unreachable if one of them is unreachable
TotalOf(r) ==
    IF \E k \in DOMAIN r.reactants : CostOf(r.reactants[k]) >= Unreachable
    THEN Unreachable
    ELSE 1 + SumOf(r.reactants, [c \in Universe |-> CostOf(c)])

\* C6: of the rules producing the target whose total is the minimum,
\* minimum_cost selects the first registered.
C6_FirstRegistered ==
    (call.op = "minimum_cost" /\ call.path = <<>> /\ call.rxn # NoRxn) =>
        LET rules == product_to_reactions[call.target]
        IN \E i \in DOMAIN rules :
              /\ rules[i] = call.rxn
              /\ TotalOf(rules[i]) = call.cost
              /\ \A j \in 1..(i - 1) : TotalOf(rules[j]) # call.cost

\* two different rules of the minimum total, the first of them selected
C6_Witness ==
    /\ call.op = "minimum_cost" /\ call.path = <<>> /\ call.rxn # NoRxn
    /\ LET rules == product_to_reactions[call.target]
       IN \E i, j \in DOMAIN rules :
             /\ i < j
             /\ rules[i] = call.rxn
             /\ rules[j] # call.rxn
             /\ TotalOf(rules[j]) = call.cost

\* the steps of a route that produce compound x
Producers(route, x) == {j \in DOMAIN route : route[j].product = x}

\* C7: the sequence design_route returns holds no rule twice and exactly one
\* step producing each intermediate compound it uses.
C7_OneStepPerCompound ==
    Routed =>
        /\ \A i, j \in DOMAIN call.steps : i # j => call.steps[i] # call.steps[j]
        /\ \A i \in DOMAIN call.steps :
              \A x \in StepInputs(call.steps, i) :
                  Cardinality(Producers(call.steps, x)) = 1

\* a step with two different inputs, each made by a step that takes the same
\* intermediate x, which one step produces
C7_Witness ==
    /\ Routed
    /\ \E t, ja, jb, jx \in DOMAIN call.steps :
          /\ ja # jb
          /\ call.steps[ja].product \in StepInputs(call.steps, t)
          /\ call.steps[jb].product \in StepInputs(call.steps, t)
          /\ call.steps[jx].product \in StepInputs(call.steps, ja)
          /\ call.steps[jx].product \in StepInputs(call.steps, jb)

\* C8: design_route returns None exactly for a name not in the registry; for
\* a known compound it returns a non-empty sequence exactly when the compound
\* is no starting material and its minimum cost is below 10**9; and
\* _collect_steps, when called, returns True.
C8_Outcome ==
    call.op = "design_route" =>
        /\ call.none <=> call.name \notin DOMAIN name_to_id
        /\ call.none => call.steps = <<>>
        /\ ~call.none =>
              (call.steps # <<>> <=>
                  /\ name_to_id[call.name] \notin starting_materials
                  /\ CostOf(name_to_id[call.name]) < Unreachable)
        /\ call.ok

\* the three outcomes: the unknown name, a known compound without a route
\* that reactions produce, a route
C8_WitnessUnknown == call.op = "design_route" /\ call.none

C8_Witness ==
    /\ Routed
    /\ call.steps = <<>>
    /\ name_to_id[call.name] \notin starting_materials
    /\ name_to_id[call.name] \in DOMAIN product_to_reactions

Min(a, b) == IF a < b THEN a ELSE b

\* the compounds demo_targets ranks
Ranked == {c \in Compounds \ starting_materials : CostOf(c) < Unreachable}

\* (cost, name) of c before (cost, name) of d
RankedBefore(c, d) ==
    \/ CostOf(c) < CostOf(d)
    \/ CostOf(c) = CostOf(d) /\ NameLess(id_to_name[c], id_to_name[d])

\* C9: for a count N >= 0 demo_targets returns the first N entries of the
\* list of the compounds that are no starting materials and have a minimum
\* cost below 10**9, in ascending order of (cost, name).
C9_CheapestFirst ==
    (call.op = "demo_targets" /\ call.count >= 0) =>
        LET ns == call.names
        IN /\ Len(ns) = Min(call.count, Cardinality(Ranked))
           /\ \A i \in DOMAIN ns :
                 ns[i] \in DOMAIN name_to_id /\ name_to_id[ns[i]] \in Ranked
           /\ \A i, j \in DOMAIN ns :
                 i < j => RankedBefore(name_to_id[ns[i]], name_to_id[ns[j]])
           /\ \A c \in Ranked :
                 (\A i \in DOMAIN ns : name_to_id[ns[i]] # c) =>
                     \A i \in DOMAIN ns : RankedBefore(name_to_id[ns[i]], c)

\* two returned compounds of one cost in the order of their names, a ranked
\* compound left out, and a starting material
C9_Witness ==
    /\ call.op = "demo_targets" /\ call.count >= 2
    /\ Len(call.names) = call.count
    /\ Cardinality(Ranked) > call.count
    /\ \E i \in DOMAIN call.names :
          /\ i + 1 \in DOMAIN call.names
          /\ CostOf(name_to_id[call.names[i]]) = CostOf(name_to_id[call.names[i + 1]])
    /\ starting_materials \cap Compounds # {}

\* the interpreter returns what the operators compute (graphs small enough
\* for the operators, which have no cache)
InterpreterAgrees ==
    Cardinality(Compounds) <= 2 * NumCompounds =>
        /\ call.op = "minimum_cost" =>
              <<call.cost, call.rxn>> = BestCost(call.target, <<>>)
        /\ call.op = "design_route" =>
              LET r == DesignRoute(call.name)
              IN /\ call.none = r.none /\ call.ok = r.ok
                 /\ call.steps = r.steps /\ call.cost = r.cost

\* no compound twice
Simple(stack) == \A i, j \in DOMAIN stack : i # j => stack[i] # stack[j]

PathsSimple ==
    \A k \in DOMAIN frames :
        /\ Simple(frames[k].stack)
        /\ Len(frames[k].stack) <= Cardinality(Universe)

\* C4: every call of minimum_cost and design_route terminates; the path
\* passed down the recursion never holds a compound twice, so it is never
\* longer than the number of distinct compounds.
C4_Terminates ==
    /\ []PathsSimple
    /\ (frames # <<>>) ~> (frames = <<>>)

\* the cycle guard fires: a call of _best_cost, two calls or more deep,
\* finds its target on its path and returns unreachable
C4_Witness ==
    /\ Running("_best_cost", "return")
    /\ \E i \in DOMAIN Top.stack : Top.stack[i] = Top.target
    /\ Len(Top.stack) >= 2
    /\ Top.best[1] = Unreachable

\* the score of the i-th indexed sample for the located query
ScoreOf(i) == ScoreDescriptors(located.query, index[i].descriptors)

Max(a, b) == IF a > b THEN a ELSE b

\* C10: for a non-empty index locate_from_descriptors returns the
\* max(1, top_k) highest-scoring samples (all of them if fewer exist) in
\* non-increasing order of the score, the first of them a sample of the
\* maximum score, and a confidence in [0, 1].
C10_TopMatches ==
    (located.op = "locate" /\ index # <<>>) =>
        LET sel == located.selected
            labels == {sel[i].sample.label : i \in DOMAIN sel}
        IN /\ ~located.raised
           /\ Len(sel) = Min(Max(1, located.top_k), Len(index))
           /\ Cardinality(labels) = Len(sel)
           /\ \A i \in DOMAIN sel :
                 /\ sel[i].sample.label \in DOMAIN index
                 /\ sel[i].sample = index[sel[i].sample.label].sample
                 /\ sel[i].score = ScoreOf(sel[i].sample.label)
           /\ \A i, j \in DOMAIN sel : i < j => sel[i].score >= sel[j].score
           /\ \A k \in DOMAIN index \ labels :
                 \A i \in DOMAIN sel : sel[i].score >= ScoreOf(k)
           /\ \A k \in DOMAIN index : sel[1].score >= ScoreOf(k)
           /\ 0 <= located.confidence[1]
           /\ located.confidence[1] <= located.confidence[2]
           /\ located.confidence[2] > 0

\* the best sample is not the first of the index, it scores above 1 (more
\* query rows than target rows), a sample is left out, and the confidence
\* is capped at 1
C10_Witness ==
    /\ located.op = "locate"
    /\ Len(index) > Len(located.selected)
    /\ located.selected # <<>>
    /\ located.selected[1].sample.label # 1
    /\ located.selected[1].score > ScoreScale
    /\ ScoreOf(1) > 0
    /\ located.confidence[1] = located.confidence[2]

====
